---- MODULE Spec2Model ----
(***************************************************************************)
(* FlutterWindow (windows/runner/flutter_window.cpp): the Windows runner's *)
(* top-level window.  It owns a FlutterViewController, offers every window *)
(* message to it, treats three messages specially, and serves the method   *)
(* channel "ci.not.rune/snap" that toggles maximum_button_hover_.          *)
(*                                                                         *)
(* The UI thread runs OnCreate, OnDestroy, MessageHandler, the channel     *)
(* handler and the next-frame callback.  The engine renders frames on its  *)
(* own threads, so a frame can complete between any two statements of      *)
(* OnCreate: OnCreate is modelled in four steps (pc), everything else as   *)
(* one step per handler.                                                   *)
(***************************************************************************)
EXTENDS Integers, Sequences, FiniteSets, TLC

\* ------------------------------------------------------------------ bounds
\* The packed cursor position WM_NCHITTEST carries in lparam ranges over 0..MaxCursor.
MaxCursor == 1

\* -------------------------------------------------------- program constants
WM_FONTCHANGE == 29
WM_NCCALCSIZE == 131
WM_NCHITTEST == 132
HTMAXBUTTON == 9
\* pncc->rgrc[0].top = 56
TopInset == 56

\* A message the switch has no case for (WM_SIZE).
OtherMessages == {5}
Messages == {WM_FONTCHANGE, WM_NCCALCSIZE, WM_NCHITTEST} \cup OtherMessages

\* Values the collaborators can produce (inputs of the model).
\* std::optional<LRESULT> returned by HandleTopLevelWindowProc.
Nullopt == [has |-> FALSE, value |-> 0]
EngineResults == {Nullopt} \cup {[has |-> TRUE, value |-> v] : v \in {0, 1}}
\* LRESULT of Win32Window::MessageHandler (0, HTCLIENT = 1 ... ).
BaseResults == {0, 2}
\* LRESULT of DefWindowProc for WM_NCCALCSIZE (0, WVR_REDRAW = 768).
DefResults == {0, 768}
\* rgrc[0].top as the caller passes it and as DefWindowProc leaves it.
TopsIn == {0, 100}
TopsDef == {31, TopInset}
Cursors == 0 .. MaxCursor

\* Method names a caller of the channel can send.
MethodNames == {"maximumButtonEnter", "maximumButtonExit", "maximumButtonHover"}

\* std::unique_ptr<FlutterViewController>: null, or a controller whose
\* engine() and view() may each be missing.
NullController == [held |-> FALSE, engine |-> FALSE, view |-> FALSE]
Controller(e, v) == [held |-> TRUE, engine |-> e, view |-> v]

VARIABLES
    flutter_controller_,    \* the owned controller reference
    maximum_button_hover_,  \* the hover flag
    pc,                     \* position inside OnCreate: "idle" when not running
    created,                \* what the last OnCreate returned: "none", "true", "false"
    setup,                  \* calls made by the current / last OnCreate, in order
    window,                 \* base native window: created and not yet destroyed
    handler,                \* the channel's method call handler is installed
    callback,               \* next-frame callback: "none", "registered", "posted"
    firstFrame,             \* the engine has completed its first frame
    framePending,           \* a redraw is scheduled
    shown,                  \* Show() has been called on the live window
    destroyed,              \* calls made by the last OnDestroy, in order
    call,                   \* the last channel call and its response
    mh,                     \* the last MessageHandler invocation
    crashed,                \* the process died on a null dereference
    op                      \* the handler that took the last step

vars == <<flutter_controller_, maximum_button_hover_, pc, created, setup, window,
          handler, callback, firstFrame, framePending, shown, destroyed, call, mh,
          crashed, op>>

NoCall == [name |-> "-", response |-> "none", before |-> FALSE, last |-> "-"]

NoMessage ==
    [message |-> 0, cursor |-> 0, topIn |-> 0, offered |-> FALSE,
     engine |-> Nullopt, reload |-> 0, defproc |-> FALSE, defRet |-> 0,
     defTop |-> 0, top |-> 0, override |-> FALSE, base |-> FALSE, baseRet |-> 0,
     reachable |-> FALSE, nullDeref |-> FALSE, returned |-> FALSE, ret |-> 0]

Init ==
    /\ flutter_controller_ = NullController
    /\ maximum_button_hover_ = FALSE
    /\ pc = "idle"
    /\ created = "none"
    /\ setup = << >>
    /\ window = FALSE
    /\ handler = FALSE
    /\ callback = "none"
    /\ firstFrame = FALSE
    /\ framePending = FALSE
    /\ shown = FALSE
    /\ destroyed = << >>
    /\ call = NoCall
    /\ mh = NoMessage
    /\ crashed = FALSE
    /\ op = "ctor"

\* ------------------------------------------------ Control Channel handler
Recognized == {"maximumButtonEnter", "maximumButtonExit"}

\* A handler that sets the flag the wrong way round.
HoverAfterSwapped(name, hover) ==
    IF name = "maximumButtonEnter" THEN FALSE
    ELSE IF name = "maximumButtonExit" THEN TRUE
    ELSE hover

\* A handler whose else branch clears the flag.
HoverAfterUnknownClears(name, hover) == name = "maximumButtonEnter"

\* maximum_button_hover_ after the handler ran for `name`.
HoverAfter(name, hover) ==
    IF name = "maximumButtonEnter" THEN TRUE
    ELSE IF name = "maximumButtonExit" THEN FALSE
    ELSE hover

\* A handler that answers every call with Success().
ResponseAlwaysSuccess(name) == "success"

\* What the handler calls on `result`.
Response(name) ==
    IF name = "maximumButtonEnter" THEN "success"
    ELSE IF name = "maximumButtonExit" THEN "success"
    ELSE "notImplemented"

\* The most recent recognized method name, given the one before this call.
LastRecognized(name, prev) == IF name \in Recognized THEN name ELSE prev

\* The lambda given to channel.SetMethodCallHandler.  It is reachable while
\* the engine that owns the messenger lives; calls are dispatched by the
\* message loop, so never inside OnCreate.
MethodCallHandler(name) ==
    /\ ~crashed
    /\ handler
    /\ pc = "idle"
    /\ maximum_button_hover_' = HoverAfter(name, maximum_button_hover_)
    /\ call' = [name |-> name, response |-> Response(name),
                before |-> maximum_button_hover_,
                last |-> LastRecognized(name, call.last)]
    /\ op' = "MethodCall"
    /\ UNCHANGED <<flutter_controller_, pc, created, setup, window, handler,
                   callback, firstFrame, framePending, shown, destroyed, mh, crashed>>

\* --------------------------------------------------------- MessageHandler
\* A handler that ignores what HandleTopLevelWindowProc returned.
EngineHandledIgnored(ctrl, r) == FALSE

\* if (flutter_controller_) { result = HandleTopLevelWindowProc(...); if (result) ...
EngineHandled(ctrl, r) == ctrl.held /\ r.has

\* flutter_controller_->engine() can be followed: neither pointer is null.
EngineReachable(ctrl) == ctrl.held /\ ctrl.engine

\* A hit-test case that never overrides.
HitTestOverrideNever(hover) == FALSE

\* A hit-test case that overrides without looking at the flag.
HitTestOverrideAlways(hover) == TRUE

\* case WM_NCHITTEST: if (this->maximum_button_hover_) return HTMAXBUTTON;
HitTestOverride(hover) == hover

\* A size-calculation case that forgets the overwrite.
NcCalcSizeTopKept(dt) == dt

\* rgrc[0].top when the WM_NCCALCSIZE case returns; dt is what DefWindowProc left.
NcCalcSizeTop(dt) == TopInset

\* A font-change case that returns instead of breaking out of the switch.
FontChangeFallsThroughNot == FALSE

\* case WM_FONTCHANGE: ...; break;
FontChangeFallsThrough == TRUE

\* The arguments of one invocation, before the handler has done anything.
Invocation(ctrl, m, pt, ti, r) ==
    [NoMessage EXCEPT !.message = m, !.cursor = pt, !.topIn = ti,
                      !.top = ti, !.offered = ctrl.held,
                      !.reachable = EngineReachable(ctrl),
                      !.engine = IF ctrl.held THEN r ELSE Nullopt]

\* return Win32Window::MessageHandler(hwnd, message, wparam, lparam);
ToBase(rec, b) ==
    [rec EXCEPT !.base = TRUE, !.baseRet = b, !.returned = TRUE, !.ret = b]

\* The whole of MessageHandler for message m with arguments pt (cursor, for a
\* hit-test) and ti (rgrc[0].top, for a size calculation).  r, d, dt and b are
\* what HandleTopLevelWindowProc, DefWindowProc (result, top) and
\* Win32Window::MessageHandler produce if called; crash picks the outcome of
\* dereferencing a null controller or engine.
Handle(ctrl, hover, m, pt, ti, r, d, dt, b, crash) ==
    LET in == Invocation(ctrl, m, pt, ti, r) IN
    IF EngineHandled(ctrl, r)
    THEN [in EXCEPT !.returned = TRUE, !.ret = r.value]
    ELSE IF m = WM_FONTCHANGE
    THEN IF EngineReachable(ctrl)
         THEN IF FontChangeFallsThrough
              THEN ToBase([in EXCEPT !.reload = 1], b)
              ELSE [in EXCEPT !.reload = 1, !.returned = TRUE, !.ret = 0]
         ELSE IF crash
              THEN [in EXCEPT !.nullDeref = TRUE]
              ELSE ToBase([in EXCEPT !.nullDeref = TRUE], b)
    ELSE IF m = WM_NCCALCSIZE
    THEN [in EXCEPT !.defproc = TRUE, !.defRet = d, !.defTop = dt,
                    !.top = NcCalcSizeTop(dt), !.returned = TRUE, !.ret = d]
    ELSE IF m = WM_NCHITTEST /\ HitTestOverride(hover)
    THEN [in EXCEPT !.override = TRUE, !.returned = TRUE, !.ret = HTMAXBUTTON]
    ELSE ToBase(in, b)

\* The window procedure can be entered whenever the object exists, also
\* re-entrantly while OnCreate runs.
MessageHandler(m, pt, ti, r, d, dt, b, crash) ==
    /\ ~crashed
    /\ mh' = Handle(flutter_controller_, maximum_button_hover_,
                    m, pt, ti, r, d, dt, b, crash)
    /\ crashed' = ~mh'.returned
    /\ op' = "MessageHandler"
    /\ UNCHANGED <<flutter_controller_, maximum_button_hover_, pc, created, setup,
                   window, handler, callback, firstFrame, framePending, shown,
                   destroyed, call>>

\* Inputs a message does not use are held at one value.
DeliverMessage ==
    \E m \in Messages :
    \E pt \in (IF m = WM_NCHITTEST THEN Cursors ELSE {0}) :
    \E ti \in (IF m = WM_NCCALCSIZE THEN TopsIn ELSE {0}) :
    \E r \in (IF flutter_controller_.held THEN EngineResults ELSE {Nullopt}) :
    \E d \in (IF m = WM_NCCALCSIZE THEN DefResults ELSE {0}) :
    \E dt \in (IF m = WM_NCCALCSIZE THEN TopsDef ELSE {0}) :
    \E b \in (IF m = WM_NCCALCSIZE THEN {0} ELSE BaseResults) :
    \E crash \in (IF m = WM_FONTCHANGE THEN BOOLEAN ELSE {FALSE}) :
        MessageHandler(m, pt, ti, r, d, dt, b, crash)

ChannelCall == \E name \in MethodNames : MethodCallHandler(name)

\* ------------------------------------------------------------- OnCreate
\* An OnCreate that builds the controller whatever the base class returned.
ControllerAfterBaseAlways(baseOK, e, v) == Controller(e, v)

\* if (!Win32Window::OnCreate()) return false;  ...  flutter_controller_ =
\* std::make_unique<FlutterViewController>(...): e and v say whether the new
\* controller has an engine and a view.
ControllerAfterBase(baseOK, e, v) ==
    IF baseOK THEN Controller(e, v) ELSE NullController

\* A check that forgets the view.
SetupOKEngineOnly(ctrl) == ctrl.engine

\* if (!flutter_controller_->engine() || !flutter_controller_->view()) return false;
SetupOK(ctrl) == ctrl.engine /\ ctrl.view

\* A ForceRedraw that schedules nothing.
ForceRedrawNothing(first, pending) == pending

\* flutter_controller_->ForceRedraw(): a frame is pending afterwards; a no-op
\* while the first frame has not completed (that frame is still to come).
ForceRedraw(first, pending) == first \/ pending

\* Lines 19-29.  Win32Window::Create destroys the previous window before it
\* creates one, so OnCreate starts with no controller.
OnCreateBase(baseOK, e, v) ==
    /\ ~crashed
    /\ pc = "idle"
    /\ flutter_controller_ = NullController
    /\ flutter_controller_' = ControllerAfterBase(baseOK, e, v)
    /\ window' = baseOK
    /\ setup' = IF flutter_controller_'.held
                THEN <<"Win32Window::OnCreate", "FlutterViewController">>
                ELSE <<"Win32Window::OnCreate">>
    /\ created' = IF baseOK THEN "none" ELSE "false"
    /\ pc' = IF baseOK THEN "check" ELSE "idle"
    /\ firstFrame' = FALSE
    /\ framePending' = FALSE
    /\ op' = "OnCreate"
    /\ UNCHANGED <<maximum_button_hover_, handler, callback, shown, destroyed,
                   call, mh, crashed>>

\* Lines 31-54.
OnCreateSetup ==
    /\ ~crashed
    /\ pc = "check"
    /\ IF SetupOK(flutter_controller_)
       THEN /\ setup' = setup \o <<"RegisterPlugins", "SetMethodCallHandler",
                                   "SetChildContent">>
            /\ handler' = TRUE
            /\ pc' = "register"
            /\ UNCHANGED created
       ELSE /\ created' = "false"
            /\ pc' = "idle"
            /\ UNCHANGED <<setup, handler>>
    /\ op' = "OnCreate"
    /\ UNCHANGED <<flutter_controller_, maximum_button_hover_, window, callback,
                   firstFrame, framePending, shown, destroyed, call, mh, crashed>>

\* Lines 56-58.
OnCreateRegister ==
    /\ ~crashed
    /\ pc = "register"
    /\ callback' = "registered"
    /\ setup' = Append(setup, "SetNextFrameCallback")
    /\ pc' = "redraw"
    /\ op' = "OnCreate"
    /\ UNCHANGED <<flutter_controller_, maximum_button_hover_, created, window,
                   handler, firstFrame, framePending, shown, destroyed, call, mh,
                   crashed>>

\* Lines 63-65.
OnCreateRedraw ==
    /\ ~crashed
    /\ pc = "redraw"
    /\ framePending' = ForceRedraw(firstFrame, framePending)
    /\ setup' = Append(setup, "ForceRedraw")
    /\ created' = "true"
    /\ pc' = "idle"
    /\ op' = "OnCreate"
    /\ UNCHANGED <<flutter_controller_, maximum_button_hover_, window, handler,
                   callback, firstFrame, shown, destroyed, call, mh, crashed>>

OnCreate ==
    \/ \E baseOK, e, v \in BOOLEAN : OnCreateBase(baseOK, e, v)
    \/ OnCreateSetup
    \/ OnCreateRegister
    \/ OnCreateRedraw

\* ------------------------------------------------------------ OnDestroy
\* An OnDestroy that destroys the native window first.
OnDestroyCallsBaseFirst(ctrl) ==
    IF ctrl.held THEN <<"Win32Window::OnDestroy", "release">>
    ELSE <<"Win32Window::OnDestroy">>

\* if (flutter_controller_) flutter_controller_ = nullptr;  Win32Window::OnDestroy();
OnDestroyCalls(ctrl) ==
    IF ctrl.held THEN <<"release", "Win32Window::OnDestroy">>
    ELSE <<"Win32Window::OnDestroy">>

\* Releasing the controller tears the engine down: its messenger (and the
\* handler set on it), its frame state and its pending callback go with it.
OnDestroy ==
    /\ ~crashed
    /\ pc = "idle"
    /\ destroyed' = OnDestroyCalls(flutter_controller_)
    /\ flutter_controller_' = NullController
    /\ handler' = FALSE
    /\ callback' = "none"
    /\ firstFrame' = FALSE
    /\ framePending' = FALSE
    /\ window' = FALSE
    /\ shown' = FALSE
    /\ op' = "OnDestroy"
    /\ UNCHANGED <<maximum_button_hover_, pc, created, setup, call, mh, crashed>>

\* ----------------------------------------------------- engine and callback
\* The engine completes a frame: its first one, or one that was scheduled.
\* A registered next-frame callback is handed to the UI thread, once.
EngineRenderFrame ==
    /\ ~crashed
    /\ flutter_controller_.held /\ flutter_controller_.engine /\ flutter_controller_.view
    /\ ~firstFrame \/ framePending
    /\ firstFrame' = TRUE
    /\ framePending' = FALSE
    /\ callback' = IF callback = "registered" THEN "posted" ELSE callback
    /\ op' = "Frame"
    /\ UNCHANGED <<flutter_controller_, maximum_button_hover_, pc, created, setup,
                   window, handler, shown, destroyed, call, mh, crashed>>

\* [&]() { this->Show(); }, run by the message loop.
NextFrameCallback ==
    /\ ~crashed
    /\ pc = "idle"
    /\ callback = "posted"
    /\ callback' = "none"
    /\ shown' = TRUE
    /\ op' = "Callback"
    /\ UNCHANGED <<flutter_controller_, maximum_button_hover_, pc, created, setup,
                   window, handler, firstFrame, framePending, destroyed, call, mh,
                   crashed>>

Next ==
    \/ OnCreate
    \/ OnDestroy
    \/ DeliverMessage
    \/ ChannelCall
    \/ EngineRenderFrame
    \/ NextFrameCallback

Spec == Init /\ [][Next]_vars

\* OnCreate runs to its return, the engine renders every frame that is due,
\* and the message loop runs every posted callback.
FairSpec ==
    /\ Spec
    /\ WF_vars(OnCreateSetup)
    /\ WF_vars(OnCreateRegister)
    /\ WF_vars(OnCreateRedraw)
    /\ WF_vars(EngineRenderFrame)
    /\ WF_vars(NextFrameCallback)

\* ================================================================ claims
Handled == mh.offered /\ mh.engine.has
FullSetup ==
    <<"Win32Window::OnCreate", "FlutterViewController", "RegisterPlugins",
      "SetMethodCallHandler", "SetChildContent", "SetNextFrameCallback",
      "ForceRedraw">>

\* C1: whenever the controller is held and HandleTopLevelWindowProc returns a
\* result, MessageHandler returns exactly that result: it does not call
\* ReloadSystemFonts or DefWindowProc, does not write rgrc[0].top, does not
\* override the hit-test and does not call Win32Window::MessageHandler.
C1_EngineResultReturned ==
    Handled =>
        /\ mh.returned /\ mh.ret = mh.engine.value
        /\ mh.reload = 0
        /\ ~mh.defproc /\ mh.top = mh.topIn
        /\ ~mh.override
        /\ ~mh.base

\* C1 witness: the engine handled a hit-test with a result other than
\* HTMAXBUTTON while the hover flag was set.
C1_Witness ==
    /\ op = "MessageHandler" /\ Handled
    /\ mh.message = WM_NCHITTEST /\ maximum_button_hover_
    /\ mh.engine.value # HTMAXBUTTON /\ mh.ret = mh.engine.value

\* C2 as stated: a hit-test delivered while the hover flag is set always
\* returns HTMAXBUTTON.
C2_HitTestAlwaysMaxButton ==
    (op = "MessageHandler" /\ mh.message = WM_NCHITTEST /\ maximum_button_hover_)
        => (mh.returned /\ mh.ret = HTMAXBUTTON)

\* C2 amended: a hit-test that the engine did not handle (no controller, or
\* HandleTopLevelWindowProc returned nothing), delivered while the hover flag
\* is set, returns HTMAXBUTTON whatever the cursor position, without
\* calling Win32Window::MessageHandler.
C2_UnhandledHitTestMaxButton ==
    (op = "MessageHandler" /\ mh.message = WM_NCHITTEST /\ maximum_button_hover_
     /\ ~Handled)
        => (mh.returned /\ mh.ret = HTMAXBUTTON /\ mh.override /\ ~mh.base)

\* C2 witness: after maximumButtonEnter, an unhandled hit-test at a non-zero
\* cursor position offered to a held controller returned HTMAXBUTTON.
C2_Witness ==
    /\ op = "MessageHandler" /\ mh.message = WM_NCHITTEST /\ maximum_button_hover_
    /\ call.name = "maximumButtonEnter"
    /\ mh.offered /\ ~mh.engine.has
    /\ mh.cursor = MaxCursor
    /\ mh.ret = HTMAXBUTTON

\* C3 as stated: after every WM_NCCALCSIZE the rectangle's top is 56 and the
\* value returned is DefWindowProc's.
C3_TopAlways56 ==
    (mh.message = WM_NCCALCSIZE)
        => (mh.top = TopInset /\ mh.defproc /\ mh.returned /\ mh.ret = mh.defRet)

\* C3 amended: after a WM_NCCALCSIZE that the engine did not handle,
\* DefWindowProc has run, the rectangle's top is 56 whatever it was before and
\* whatever DefWindowProc left there, and the value returned is DefWindowProc's;
\* Win32Window::MessageHandler is not called.
C3_UnhandledTop56 ==
    (mh.message = WM_NCCALCSIZE /\ ~Handled)
        => /\ mh.defproc
           /\ mh.top = TopInset
           /\ mh.returned /\ mh.ret = mh.defRet
           /\ ~mh.base

\* C3 witness: DefWindowProc left a top other than 56 and returned a non-zero
\* result; the top is 56 afterwards and that result was returned.
C3_Witness ==
    /\ mh.message = WM_NCCALCSIZE /\ ~Handled /\ mh.defproc
    /\ mh.topIn # TopInset /\ mh.defTop # TopInset /\ mh.top = TopInset
    /\ mh.defRet # 0 /\ mh.ret = mh.defRet

\* C4: the flag is true after maximumButtonEnter and false after
\* maximumButtonExit, whatever it was before (also when it already had that
\* value), and both calls answer success.
C4_EnterExitSetFlag ==
    /\ call.name = "maximumButtonEnter"
           => (maximum_button_hover_ /\ call.response = "success")
    /\ call.name = "maximumButtonExit"
           => (~maximum_button_hover_ /\ call.response = "success")

\* C4 witness: maximumButtonEnter repeated while the flag was already true.
C4_Witness ==
    /\ op = "MethodCall" /\ call.name = "maximumButtonEnter"
    /\ call.before /\ maximum_button_hover_ /\ call.response = "success"

\* C5: a call with any other method name answers "not implemented" and
\* changes neither the flag nor the controller reference.
C5_UnknownNotImplemented ==
    [][(op' = "MethodCall" /\ call'.name \notin Recognized)
          => /\ call'.response = "notImplemented"
             /\ maximum_button_hover_' = maximum_button_hover_
             /\ flutter_controller_' = flutter_controller_]_vars

\* C5 witness: an unrecognized call arrived while the flag was true and left
\* it true.
C5_Witness ==
    /\ op = "MethodCall" /\ call.name \notin Recognized
    /\ call.before /\ maximum_button_hover_
    /\ call.response = "notImplemented"

\* C6: when Win32Window::OnCreate fails, OnCreate returns false with the
\* controller still null and nothing set up: no plugins, no channel handler,
\* no next-frame callback.
C6_BaseFailureNoEngine ==
    (op = "OnCreate" /\ pc = "idle" /\ ~window)
        => /\ created = "false"
           /\ flutter_controller_ = NullController
           /\ setup = <<"Win32Window::OnCreate">>
           /\ ~handler
           /\ callback = "none"

\* C6 witness: OnCreate has just returned false after a failed base creation.
C6_Witness ==
    /\ op = "OnCreate" /\ pc = "idle" /\ ~window /\ created = "false"
    /\ setup = <<"Win32Window::OnCreate">>

\* C7: OnCreate returns true exactly when base creation succeeded and the
\* controller has both engine and view, and then every setup step has run in
\* order; when engine or view is missing it returns false having constructed
\* the controller and done nothing after that.
C7_EngineOrViewMissingFails ==
    (op = "OnCreate" /\ pc = "idle") =>
        /\ created = "true" <=>
               (window /\ flutter_controller_.engine /\ flutter_controller_.view)
        /\ created = "true" => setup = FullSetup
        /\ (window /\ ~(flutter_controller_.engine /\ flutter_controller_.view))
               => /\ created = "false"
                  /\ setup = <<"Win32Window::OnCreate", "FlutterViewController">>
                  /\ ~handler
                  /\ callback = "none"
                  /\ ~framePending

\* C7 witness: the controller has an engine but no view and OnCreate has
\* returned false.
C7_Witness ==
    /\ op = "OnCreate" /\ pc = "idle" /\ window /\ created = "false"
    /\ flutter_controller_.held
    /\ flutter_controller_.engine /\ ~flutter_controller_.view

\* C8: the controller is held only while the native window exists, and every
\* OnDestroy leaves the reference null and the window destroyed, releasing
\* the controller before Win32Window::OnDestroy when it was held and only
\* calling Win32Window::OnDestroy when it was already null.
C8_ReleaseBeforeBaseDestroy ==
    /\ [](flutter_controller_.held => window)
    /\ [][op' = "OnDestroy"
             => /\ flutter_controller_' = NullController
                /\ ~window'
                /\ destroyed' = IF flutter_controller_.held
                                THEN <<"release", "Win32Window::OnDestroy">>
                                ELSE <<"Win32Window::OnDestroy">>]_vars

\* C8 witness: a second OnDestroy after a successful OnCreate: nothing was
\* released, the base class was still called.
C8_Witness ==
    /\ op = "OnDestroy" /\ created = "true"
    /\ destroyed = <<"Win32Window::OnDestroy">>
    /\ flutter_controller_ = NullController

\* C9: a WM_FONTCHANGE that the engine was offered and did not handle makes
\* exactly one ReloadSystemFonts call and then goes to
\* Win32Window::MessageHandler, whose result is returned.
C9_FontChangeFallsThrough ==
    (mh.message = WM_FONTCHANGE /\ mh.reachable /\ ~mh.engine.has)
        => /\ mh.reload = 1
           /\ mh.base
           /\ mh.returned /\ mh.ret = mh.baseRet

\* C9 witness: such a message returned the base handler's non-zero result.
C9_Witness ==
    /\ op = "MessageHandler" /\ mh.message = WM_FONTCHANGE
    /\ mh.reachable /\ ~mh.engine.has
    /\ mh.reload = 1 /\ mh.base /\ mh.baseRet # 0 /\ mh.ret = mh.baseRet

OnCreateReturnedTrue == op = "OnCreate" /\ pc = "idle" /\ created = "true"

\* C10 as stated: once OnCreate has returned true, Show is eventually called.
C10_EventuallyShown == OnCreateReturnedTrue ~> shown

\* C10 amended: once OnCreate has returned true, Show is eventually called
\* unless OnDestroy releases the controller first.
C10_ShownUnlessDestroyed ==
    OnCreateReturnedTrue ~> (shown \/ ~flutter_controller_.held)

\* C10 witness: OnCreate has returned true in the run where the first frame
\* completed before the callback was registered: the callback is still
\* registered and the only frame to come is the one ForceRedraw scheduled.
C10_Witness ==
    /\ OnCreateReturnedTrue
    /\ firstFrame /\ callback = "registered" /\ framePending /\ ~shown

\* C11: the flag is false at construction; OnCreate, OnDestroy and
\* MessageHandler (engine-handled or not) never change it; and in every
\* reachable state it is true exactly when the most recent recognized channel
\* call was maximumButtonEnter (false after maximumButtonExit or with no
\* recognized call yet).
C11_FlagFollowsLastRecognizedCall ==
    /\ ~maximum_button_hover_
    /\ [](maximum_button_hover_ <=> call.last = "maximumButtonEnter")
    /\ [][op' \in {"OnCreate", "OnDestroy", "MessageHandler", "Frame", "Callback"}
             => maximum_button_hover_' = maximum_button_hover_]_vars

\* C11 witness: maximumButtonEnter, then an unrecognized call, then OnDestroy:
\* the flag is still true.
C11_Witness ==
    /\ op = "OnDestroy"
    /\ call.last = "maximumButtonEnter" /\ call.name \notin Recognized
    /\ maximum_button_hover_

\* C12: a message the engine did not handle falls through when it is a
\* hit-test with the flag false or any message other than font-change, size
\* calculation and hit-test: MessageHandler returns what
\* Win32Window::MessageHandler returns, calls neither ReloadSystemFonts nor
\* DefWindowProc and leaves the rectangle as it was.
C12_FallsThroughToBase ==
    (/\ op = "MessageHandler" /\ ~Handled
     /\ \/ mh.message = WM_NCHITTEST /\ ~maximum_button_hover_
        \/ mh.message \notin {WM_FONTCHANGE, WM_NCCALCSIZE, WM_NCHITTEST})
        => /\ mh.base /\ mh.returned /\ mh.ret = mh.baseRet
           /\ ~mh.override
           /\ mh.reload = 0 /\ ~mh.nullDeref
           /\ ~mh.defproc /\ mh.top = mh.topIn

\* C12 witness: after maximumButtonExit, a hit-test the held controller
\* declined returned the base handler's non-zero result.
C12_Witness ==
    /\ op = "MessageHandler" /\ mh.message = WM_NCHITTEST
    /\ ~maximum_button_hover_ /\ call.name = "maximumButtonExit"
    /\ mh.offered /\ ~mh.engine.has
    /\ mh.base /\ mh.baseRet # 0 /\ mh.ret = mh.baseRet

\* C13: MessageHandler never dereferences a missing controller: every
\* message delivered while the reference is null, font-change included, makes
\* no engine call and returns.
C13_NoUseOfNullController ==
    (mh.message # 0 /\ ~mh.offered)
        => (~mh.nullDeref /\ mh.reload = 0 /\ mh.returned)

====
